---- MODULE Spec2Model ----
(***************************************************************************)
(* Model of api_cnis.py: the CNIS text extraction request                  *)
(* (extrair_texto_cnis) and its cleaning stages limpar_cabecalhos_rodapes, *)
(* normalizar_espacos and consolidar_linhas_quebradas.                     *)
(*                                                                         *)
(* A Python str is a sequence of one-character strings; "\n" is the line   *)
(* break.  The token "<d>" in a shape stands for the regex class \d.       *)
(***************************************************************************)
EXTENDS Integers, Sequences, FiniteSets, TLC

VARIABLES
    pc,                   \* position inside extrair_texto_cnis / the stage that runs next
    pages,                \* pdf.pages: what extract_text yields for each page
    tmp_file,             \* TRUE while the temporary file exists on disk
    erro,                 \* the exception in flight ("none" when there is none)
    p,                    \* index of the page the for loop visits next
    texto_completo,       \* list of page texts collected so far
    texto_bruto,          \* texto_bruto, the input of the cleaning stages
    texto_limpo,          \* texto_limpo, the text after the last stage that ran
    entrada,              \* the text the last stage received
    linhas,               \* consolidar_linhas_quebradas: linhas
    i,                    \* consolidar_linhas_quebradas: i (1-based here)
    linhas_consolidadas,  \* consolidar_linhas_quebradas: linhas_consolidadas
    saida1,               \* output of the first pipeline run, once it is fed back
    reaplicado            \* TRUE once the pipeline output has been fed back as input

vars == <<pc, pages, tmp_file, erro, p, texto_completo, texto_bruto, texto_limpo,
          entrada, linhas, i, linhas_consolidadas, saida1, reaplicado>>

----------------------------------------------------------------------------
(* Bounds *)

MaxLines == 3
MaxPages == 2

----------------------------------------------------------------------------
(* Characters and str primitives *)

NL == "\n"
Digits == {"0", "1", "2", "3", "4", "5", "6", "7", "8", "9"}
\* the characters str.strip() removes (a line never holds "\n")
Whitespace == {" ", "\t", "\r", "\f"}
\* the characters the regex class \s matches
RegexSpace == Whitespace \cup {NL}

\* the positions of s, in increasing order
Positions(s) == [k \in 1..Len(s) |-> k]

\* the characters of s at the positions K, in order
KeepAt(s, K) ==
    LET ks == SelectSeq(Positions(s), LAMBDA k : k \in K)
    IN  [j \in 1..Len(ks) |-> s[ks[j]]]

\* str.strip(): what lies between the first and the last non-whitespace character
Strip(s) ==
    LET K == {k \in 1..Len(s) : s[k] \notin Whitespace}
    IN  IF K = {} THEN <<>>
        ELSE SubSeq(s, CHOOSE k \in K : \A m \in K : k <= m,
                       CHOOSE k \in K : \A m \in K : m <= k)

\* the pieces of s between consecutive characters of Seps (empty pieces kept)
SplitAt(s, Seps) ==
    LET ks == SelectSeq(Positions(s), LAMBDA k : s[k] \in Seps)
        n == Len(ks)
    IN  [j \in 1..(n + 1) |->
            SubSeq(s, IF j = 1 THEN 1 ELSE ks[j - 1] + 1,
                      IF j = n + 1 THEN Len(s) ELSE ks[j] - 1)]

\* str.split('\n'); ''.split('\n') is ['']
Split(s) == SplitAt(s, {NL})

\* '\n'.join(ls)
RECURSIVE Join(_)
Join(ls) ==
    IF ls = <<>> THEN <<>>
    ELSE IF Len(ls) = 1 THEN ls[1]
    ELSE ls[1] \o <<NL>> \o Join(Tail(ls))

\* s has the length of shape and fits it position by position
Fits(s, shape) ==
    /\ Len(s) = Len(shape)
    /\ \A k \in 1..Len(shape) :
          IF shape[k] = "<d>" THEN s[k] \in Digits ELSE s[k] = shape[k]

StartsWith(s, shape) ==
    Len(s) >= Len(shape) /\ Fits(SubSeq(s, 1, Len(shape)), shape)

EndsWith(s, shape) ==
    Len(s) >= Len(shape) /\ Fits(SubSeq(s, Len(s) - Len(shape) + 1, Len(s)), shape)

AllIn(s, S) == \A k \in 1..Len(s) : s[k] \in S

----------------------------------------------------------------------------
(* normalizar_espacos *)

\* re.sub(r' {2,}', ' ', texto): a space followed by a space is dropped, so a
\* run of two or more spaces leaves its last one
\* faulty variant: the runs of spaces are left as they are
SubEspacos_Nada(s) == s

SubEspacos(s) ==
    KeepAt(s, {k \in 1..Len(s) : ~(s[k] = " " /\ k < Len(s) /\ s[k + 1] = " ")})

\* [linha.strip() for linha in ...]
StripLinhas(ls) == [k \in 1..Len(ls) |-> Strip(ls[k])]

\* the loop over linhas with the flag linha_vazia_anterior
RECURSIVE LinhasLimpas(_, _)
LinhasLimpas(ls, linha_vazia_anterior) ==
    IF ls = <<>> THEN <<>>
    ELSE IF Head(ls) # <<>> THEN <<Head(ls)>> \o LinhasLimpas(Tail(ls), FALSE)
    ELSE IF ~linha_vazia_anterior THEN << <<>> >> \o LinhasLimpas(Tail(ls), TRUE)
    ELSE LinhasLimpas(Tail(ls), linha_vazia_anterior)

\* faulty variant: the duplicate empty lines are removed before the lines are
\* stripped, so a whitespace-only line does not count as empty
normalizar_espacos_ColapsaAntes(texto) ==
    Join(StripLinhas(LinhasLimpas(Split(SubEspacos(texto)), FALSE)))

normalizar_espacos(texto) ==
    Join(LinhasLimpas(StripLinhas(Split(SubEspacos(texto))), FALSE))

----------------------------------------------------------------------------
(* limpar_cabecalhos_rodapes *)

\* length of the longest prefix of s made of digits (a greedy \d+)
RECURSIVE DigitRun(_)
DigitRun(s) ==
    IF s = <<>> \/ Head(s) \notin Digits THEN 0 ELSE 1 + DigitRun(Tail(s))

Drop(s, n) == SubSeq(s, n + 1, Len(s))

\* r'^Página \d+ de \d+$'
PadraoPagina(s) ==
    /\ StartsWith(s, <<"P", "á", "g", "i", "n", "a", " ">>)
    /\ LET r == Drop(s, 7)
           n == DigitRun(r)
       IN  /\ n >= 1
           /\ StartsWith(Drop(r, n), <<" ", "d", "e", " ">>)
           /\ Len(Drop(r, n + 4)) >= 1
           /\ AllIn(Drop(r, n + 4), Digits)

\* r'^INSS\s*$'
PadraoINSS(s) ==
    StartsWith(s, <<"I", "N", "S", "S">>) /\ AllIn(Drop(s, 4), RegexSpace)

\* r'^CNIS - Cadastro Nacional'
PadraoCNIS(s) ==
    StartsWith(s, <<"C", "N", "I", "S", " ", "-", " ", "C", "a", "d", "a", "s", "t", "r", "o", " ", "N", "a", "c", "i", "o", "n", "a", "l">>)

\* r'^Extrato Previdenciário\s*$'
PadraoExtrato(s) ==
    /\ StartsWith(s, <<"E", "x", "t", "r", "a", "t", "o", " ", "P", "r", "e", "v", "i", "d", "e", "n", "c", "i", "á", "r", "i", "o">>)
    /\ AllIn(Drop(s, 22), RegexSpace)

\* r'^\d{2}/\d{2}/\d{4} \d{2}:\d{2}:\d{2}$'
PadraoDataHora(s) ==
    Fits(s, <<"<d>", "<d>", "/", "<d>", "<d>", "/", "<d>", "<d>", "<d>", "<d>", " ",
              "<d>", "<d>", ":", "<d>", "<d>", ":", "<d>", "<d>">>)

\* any(re.match(padrao, s) for padrao in padroes_ignorar)
padroes_ignorar(s) ==
    \/ PadraoPagina(s)
    \/ PadraoINSS(s)
    \/ PadraoCNIS(s)
    \/ PadraoExtrato(s)
    \/ PadraoDataHora(s)

\* eh_cabecalho_rodape for one line: the patterns are tried on linha.strip()
eh_cabecalho_rodape(linha) == padroes_ignorar(Strip(linha))

limpar_cabecalhos_rodapes(texto) ==
    Join(SelectSeq(Split(texto), LAMBDA linha : ~eh_cabecalho_rodape(linha)))

----------------------------------------------------------------------------
(* consolidar_linhas_quebradas *)

termos_continuacao ==
    { <<"D", "O", "M", "É", "S", "T", "I", "C", "O">>,
      <<"D", "O", "M", "E", "S", "T", "I", "C", "O">>,
      <<"I", "N", "D", "I", "V", "I", "D", "U", "A", "L">>,
      <<"F", "A", "C", "U", "L", "T", "A", "T", "I", "V", "O">> }

\* re.search(r'\d{2}/\d{2}/\d{4}$', linha)
TerminaComData(linha) ==
    EndsWith(linha, <<"<d>", "<d>", "/", "<d>", "<d>", "/", "<d>", "<d>", "<d>", "<d>">>)

\* re.search(r'\d+,\d{2}$', linha)
TerminaComValor(linha) ==
    EndsWith(linha, <<"<d>", ",", "<d>", "<d>">>)

\* faulty variant: the trailing money amount is not tested
EhContinuacao_SemValor(linha_atual, proxima_linha) ==
    /\ proxima_linha \in termos_continuacao
    /\ ~TerminaComData(linha_atual)

\* the condition of the if at lines 65-67, for linha_atual and proxima_linha
EhContinuacao(linha_atual, proxima_linha) ==
    /\ proxima_linha \in termos_continuacao
    /\ ~TerminaComData(linha_atual)
    /\ ~TerminaComValor(linha_atual)

\* the line after ls[k], stripped, is a continuation term
proxima_em_termos(ls, k) == Strip(ls[k + 1]) \in termos_continuacao

\* faulty variant: the merged line puts the continuation term first
ConsStep_Invertido(ls, k) ==
    LET linha_atual == Strip(ls[k])
    IN  IF linha_atual # <<>>
        THEN IF k + 1 <= Len(ls) /\ proxima_em_termos(ls, k) /\ ~TerminaComData(linha_atual)
                /\ ~TerminaComValor(linha_atual)
             THEN [linha |-> Strip(ls[k + 1]) \o <<" ">> \o linha_atual, prox |-> k + 2]
             ELSE [linha |-> linha_atual, prox |-> k + 1]
        ELSE [linha |-> <<>>, prox |-> k + 1]

\* faulty variant: the merged line is examined again against the line after
\* the consumed one
ConsStep_Encadeado(ls, k) ==
    LET linha_atual == Strip(ls[k])
        livre == ~TerminaComData(linha_atual) /\ ~TerminaComValor(linha_atual)
    IN  IF linha_atual # <<>>
        THEN IF k + 1 <= Len(ls) /\ proxima_em_termos(ls, k) /\ livre
             THEN IF k + 2 <= Len(ls) /\ proxima_em_termos(ls, k + 1)
                  THEN [linha |-> linha_atual \o <<" ">> \o Strip(ls[k + 1])
                                   \o <<" ">> \o Strip(ls[k + 2]),
                        prox |-> k + 3]
                  ELSE [linha |-> linha_atual \o <<" ">> \o Strip(ls[k + 1]),
                        prox |-> k + 2]
             ELSE [linha |-> linha_atual, prox |-> k + 1]
        ELSE [linha |-> <<>>, prox |-> k + 1]

\* faulty variant: a line that is not merged is appended as it was read
ConsStep_SemStrip(ls, k) ==
    LET linha_atual == Strip(ls[k])
    IN  IF linha_atual # <<>>
        THEN IF k + 1 <= Len(ls) /\ proxima_em_termos(ls, k) /\ ~TerminaComData(linha_atual)
                /\ ~TerminaComValor(linha_atual)
             THEN [linha |-> linha_atual \o <<" ">> \o Strip(ls[k + 1]), prox |-> k + 2]
             ELSE [linha |-> ls[k], prox |-> k + 1]
        ELSE [linha |-> ls[k], prox |-> k + 1]

\* one iteration of the while loop at index k: the line it appends and the
\* index the next iteration starts at
ConsStep(ls, k) ==
    LET linha_atual == Strip(ls[k])
    IN  IF linha_atual # <<>>
        THEN IF k + 1 <= Len(ls) /\ EhContinuacao(linha_atual, Strip(ls[k + 1]))
             THEN [linha |-> linha_atual \o <<" ">> \o Strip(ls[k + 1]), prox |-> k + 2]
             ELSE [linha |-> linha_atual, prox |-> k + 1]
        ELSE [linha |-> <<>>, prox |-> k + 1]

----------------------------------------------------------------------------
(* Inputs *)

\* sequences of 1..n elements of S
SeqsUpTo(S, n) == UNION {[1..m -> S] : m \in 1..n}

\* lines of a raw document, before any stage
LinhasBrutas ==
    { <<>>,
      <<"\t">>,
      <<" ", "A", " ", " ", "B">>,
      <<"D", "O", "M", "E", "S", "T", "I", "C", "O">>,
      <<"I", "N", "S", "S">>,
      <<"P", "á", "g", "i", "n", "a", " ", "3", " ", "d", "e", " ", "1", "0">>,
      <<"P", "á", "g", "i", "n", "a", " ", "1", " ", " ", "d", "e", " ", "2">>,
      <<"1", ",", "5", "0">>,
      <<"I", "N", "D", "I", "V", "I", "D", "U", "A", "L", " ">>,
      <<"a", " ", "3", "1", "/", "1", "2", "/", "2", "0", "2", "0">> }

\* lines handed to consolidar_linhas_quebradas directly (not yet normalized)
LinhasParaConsolidar ==
    { <<>>,
      <<" ">>,
      <<" ", "A", " ">>,
      <<"E", "M", "P", "R", "E", "G", "A", "D", "O">>,
      <<"D", "O", "M", "É", "S", "T", "I", "C", "O">>,
      <<" ", "I", "N", "D", "I", "V", "I", "D", "U", "A", "L">>,
      <<"F", "A", "C", "U", "L", "T", "A", "T", "I", "V", "O", " ", "X">>,
      <<"0", "1", "/", "0", "1", "/", "2", "0", "2", "0">>,
      <<"S", "A", "L", "A", "R", "I", "O", " ", "1", ".", "2", "3", "4", ",", "5", "6">> }

TextosBrutos == {Join(ls) : ls \in SeqsUpTo(LinhasBrutas, MaxLines)}

TextosParaConsolidar == {Join(ls) : ls \in SeqsUpTo(LinhasParaConsolidar, MaxLines)}

\* what pagina.extract_text returns: None, '' or a text
SemTexto == [none |-> TRUE, texto |-> <<>>]
Texto(t) == [none |-> FALSE, texto |-> t]

Paginas ==
    { SemTexto,
      Texto(<<>>),
      Texto(<<"C", "N", "I", "S", " ", "-", " ", "C", "a", "d", "a", "s", "t", "r", "o", " ", "N", "a", "c", "i", "o", "n", "a", "l", "\n", "P", "á", "g", "i", "n", "a", " ", "1", " ", "d", "e", " ", "2", "\n", "E", "M", "P", "R", "E", "G", "A", "D", "O">>),
      Texto(<<"D", "O", "M", "É", "S", "T", "I", "C", "O", "\n", "0", "1", "/", "0", "1", "/", "2", "0", "2", "0", " ", " ", " ", "a", " ", " ", " ", "3", "1", "/", "1", "2", "/", "2", "0", "2", "0">>),
      Texto(<<"E", "x", "t", "r", "a", "t", "o", " ", "P", "r", "e", "v", "i", "d", "e", "n", "c", "i", "á", "r", "i", "o", "\n", "\n", "0", "1", "/", "0", "1", "/", "2", "0", "2", "0", " ", "1", "0", ":", "0", "0", ":", "0", "0", "\n", "I", "N", "S", "S">>) }

Documentos == {<<>>} \cup SeqsUpTo(Paginas, MaxPages)

----------------------------------------------------------------------------
(* extrair_texto_cnis *)

Ocioso ==
    /\ linhas = <<>> /\ i = 1 /\ linhas_consolidadas = <<>>
    /\ saida1 = <<>> /\ reaplicado = FALSE

Init ==
    /\ pc = "create"
    /\ pages \in Documentos
    /\ tmp_file = FALSE
    /\ erro = "none"
    /\ p = 1
    /\ texto_completo = <<>>
    /\ texto_bruto = <<>> /\ texto_limpo = <<>> /\ entrada = <<>>
    /\ Ocioso

\* tempfile.NamedTemporaryFile(delete=False, suffix='.pdf')
CriarTemp ==
    /\ pc = "create"
    /\ \E ok \in BOOLEAN :
          IF ok THEN tmp_file' = TRUE /\ pc' = "write" /\ erro' = erro
          ELSE tmp_file' = tmp_file /\ pc' = "raised" /\ erro' = "create"
    /\ UNCHANGED <<pages, p, texto_completo, texto_bruto, texto_limpo, entrada,
                   linhas, i, linhas_consolidadas, saida1, reaplicado>>

\* tmp_file.write(pdf_bytes); tmp_path = tmp_file.name; leaving the with block
\* closes the file and, with delete=False, keeps it on disk.  The with block
\* stands before the try: an exception here leaves the function at once.
EscreverBytes ==
    /\ pc = "write"
    /\ \E ok \in BOOLEAN :
          IF ok THEN pc' = "open" /\ erro' = erro
          ELSE pc' = "raised" /\ erro' = "write"
    /\ UNCHANGED <<pages, tmp_file, p, texto_completo, texto_bruto, texto_limpo, entrada,
                   linhas, i, linhas_consolidadas, saida1, reaplicado>>

\* pdfplumber.open(tmp_path), inside the try
AbrirPdf ==
    /\ pc = "open"
    /\ \E ok \in BOOLEAN :
          IF ok THEN pc' = "pages" /\ erro' = erro
          ELSE pc' = "finally" /\ erro' = "open"
    /\ UNCHANGED <<pages, tmp_file, p, texto_completo, texto_bruto, texto_limpo, entrada,
                   linhas, i, linhas_consolidadas, saida1, reaplicado>>

\* faulty variant: only None is skipped, an empty text is appended
Truthy_SoNone(texto_pagina) == ~texto_pagina.none

\* if texto_pagina:
Truthy(texto_pagina) == ~texto_pagina.none /\ texto_pagina.texto # <<>>

\* one iteration of for pagina in pdf.pages
ExtrairPagina ==
    /\ pc = "pages"
    /\ p <= Len(pages)
    /\ \E ok \in BOOLEAN :
          IF ok
          THEN /\ texto_completo' = IF Truthy(pages[p])
                                    THEN Append(texto_completo, pages[p].texto)
                                    ELSE texto_completo
               /\ p' = p + 1
               /\ UNCHANGED <<pc, erro>>
          ELSE /\ pc' = "finally" /\ erro' = "extract"
               /\ UNCHANGED <<p, texto_completo>>
    /\ UNCHANGED <<pages, tmp_file, texto_bruto, texto_limpo, entrada,
                   linhas, i, linhas_consolidadas, saida1, reaplicado>>

\* the for loop is exhausted and the with block closes the document
FimPaginas ==
    /\ pc = "pages"
    /\ p > Len(pages)
    /\ pc' = "finally"
    /\ UNCHANGED <<pages, tmp_file, erro, p, texto_completo, texto_bruto, texto_limpo,
                   entrada, linhas, i, linhas_consolidadas, saida1, reaplicado>>

\* finally: Path(tmp_path).unlink(missing_ok=True); a pending exception then
\* leaves the function
Finally ==
    /\ pc = "finally"
    /\ tmp_file' = FALSE
    /\ pc' = IF erro = "none" THEN "join" ELSE "raised"
    /\ UNCHANGED <<pages, erro, p, texto_completo, texto_bruto, texto_limpo, entrada,
                   linhas, i, linhas_consolidadas, saida1, reaplicado>>

\* texto_bruto = '\n'.join(texto_completo)
Juntar ==
    /\ pc = "join"
    /\ texto_bruto' = Join(texto_completo)
    /\ pc' = "limpar"
    /\ UNCHANGED <<pages, tmp_file, erro, p, texto_completo, texto_limpo, entrada,
                   linhas, i, linhas_consolidadas, saida1, reaplicado>>

\* 1. texto_limpo = limpar_cabecalhos_rodapes(texto_bruto)
Limpar ==
    /\ pc = "limpar"
    /\ entrada' = texto_bruto
    /\ texto_limpo' = limpar_cabecalhos_rodapes(texto_bruto)
    /\ pc' = "norm1"
    /\ UNCHANGED <<pages, tmp_file, erro, p, texto_completo, texto_bruto,
                   linhas, i, linhas_consolidadas, saida1, reaplicado>>

\* 2. texto_limpo = normalizar_espacos(texto_limpo)
Normalizar1 ==
    /\ pc = "norm1"
    /\ entrada' = texto_limpo
    /\ texto_limpo' = normalizar_espacos(texto_limpo)
    /\ pc' = "cons"
    /\ UNCHANGED <<pages, tmp_file, erro, p, texto_completo, texto_bruto,
                   linhas, i, linhas_consolidadas, saida1, reaplicado>>

\* 3. consolidar_linhas_quebradas(texto_limpo): linhas = texto.split('\n'),
\* linhas_consolidadas = [], i = 0
ConsInicio ==
    /\ pc = "cons"
    /\ entrada' = texto_limpo
    /\ linhas' = Split(texto_limpo)
    /\ linhas_consolidadas' = <<>>
    /\ i' = 1
    /\ pc' = "cons_loop"
    /\ UNCHANGED <<pages, tmp_file, erro, p, texto_completo, texto_bruto, texto_limpo,
                   saida1, reaplicado>>

\* one iteration of while i < len(linhas)
ConsIteracao ==
    /\ pc = "cons_loop"
    /\ i <= Len(linhas)
    /\ linhas_consolidadas' = Append(linhas_consolidadas, ConsStep(linhas, i).linha)
    /\ i' = ConsStep(linhas, i).prox
    /\ UNCHANGED <<pc, pages, tmp_file, erro, p, texto_completo, texto_bruto, texto_limpo,
                   entrada, linhas, saida1, reaplicado>>

\* return '\n'.join(linhas_consolidadas)
ConsRetorno ==
    /\ pc = "cons_loop"
    /\ i > Len(linhas)
    /\ texto_limpo' = Join(linhas_consolidadas)
    /\ pc' = "norm2"
    /\ UNCHANGED <<pages, tmp_file, erro, p, texto_completo, texto_bruto, entrada,
                   linhas, i, linhas_consolidadas, saida1, reaplicado>>

\* 4. texto_limpo = normalizar_espacos(texto_limpo); return texto_limpo
Normalizar2 ==
    /\ pc = "norm2"
    /\ entrada' = texto_limpo
    /\ texto_limpo' = normalizar_espacos(texto_limpo)
    /\ pc' = "done"
    /\ UNCHANGED <<pages, tmp_file, erro, p, texto_completo, texto_bruto,
                   linhas, i, linhas_consolidadas, saida1, reaplicado>>

Next ==
    \/ CriarTemp
    \/ EscreverBytes
    \/ AbrirPdf
    \/ ExtrairPagina
    \/ FimPaginas
    \/ Finally
    \/ Juntar
    \/ Limpar
    \/ Normalizar1
    \/ ConsInicio
    \/ ConsIteracao
    \/ ConsRetorno
    \/ Normalizar2

Spec == Init /\ [][Next]_vars

----------------------------------------------------------------------------
(* The four cleaning stages on a raw text, and once more on their own output *)

SemPedido ==
    /\ pages = <<>> /\ tmp_file = FALSE /\ erro = "none" /\ p = 1
    /\ texto_completo = <<>>

InitPipe ==
    /\ pc = "limpar"
    /\ texto_bruto \in TextosBrutos
    /\ texto_limpo = <<>> /\ entrada = <<>>
    /\ SemPedido
    /\ Ocioso

\* the returned text is given to the four stages again
Reaplicar ==
    /\ pc = "done"
    /\ ~reaplicado
    /\ reaplicado' = TRUE
    /\ saida1' = texto_limpo
    /\ texto_bruto' = texto_limpo
    /\ pc' = "limpar"
    /\ UNCHANGED <<pages, tmp_file, erro, p, texto_completo, texto_limpo, entrada,
                   linhas, i, linhas_consolidadas>>

NextPipe ==
    \/ Limpar
    \/ Normalizar1
    \/ ConsInicio
    \/ ConsIteracao
    \/ ConsRetorno
    \/ Normalizar2
    \/ Reaplicar

SpecPipe == InitPipe /\ [][NextPipe]_vars

----------------------------------------------------------------------------
(* consolidar_linhas_quebradas called on a text that is not yet normalized *)

InitCons ==
    /\ pc = "cons"
    /\ texto_limpo \in TextosParaConsolidar
    /\ texto_bruto = <<>> /\ entrada = <<>>
    /\ SemPedido
    /\ Ocioso

NextCons ==
    \/ ConsInicio
    \/ ConsIteracao
    \/ ConsRetorno

SpecCons == InitCons /\ [][NextCons]_vars

----------------------------------------------------------------------------
(* Properties *)

\* the lines of the text the pipeline holds
LinhasDe(t) == Split(t)

\* the words of a text: the maximal runs of characters that are neither
\* whitespace nor a line break, in order
Palavras(t) ==
    SelectSeq(SplitAt(t, Whitespace \cup {NL}), LAMBDA w : w # <<>>)

\* the number of maximal runs of consecutive blank lines among ls
BlocosVazios(ls) ==
    Cardinality({k \in 1..Len(ls) :
                    Strip(ls[k]) = <<>> /\ (k = 1 \/ Strip(ls[k - 1]) # <<>>)})

\* C1: the four stages applied to their own output return that output
\* unchanged.
C1_PipelineIdempotent ==
    (reaplicado /\ pc = "done") => texto_limpo = saida1

\* C2: no line of the text the four stages return matches a pattern of the
\* furniture pattern set.
C2_FurnitureFree ==
    pc = "done" =>
        \A k \in 1..Len(LinhasDe(texto_limpo)) : ~padroes_ignorar(LinhasDe(texto_limpo)[k])

Retornou == pc = "norm2"

\* C4: every line one pass of the consolidator returns is one input line
\* (stripped) or two consecutive input lines joined by a space; for three
\* lines A, B, C with B and C continuation terms and A mergeable the pass
\* returns A + " " + B and C.
C4_AtMostTwoLines ==
    Retornou =>
        /\ \A k \in 1..Len(linhas_consolidadas) :
              \E j \in 1..Len(linhas) :
                 \/ linhas_consolidadas[k] = Strip(linhas[j])
                 \/ /\ j + 1 <= Len(linhas)
                    /\ linhas_consolidadas[k] =
                          Strip(linhas[j]) \o <<" ">> \o Strip(linhas[j + 1])
        /\ 2 * Len(linhas_consolidadas) >= Len(linhas)
        /\ ( /\ Len(linhas) = 3
             /\ Strip(linhas[1]) # <<>>
             /\ ~TerminaComData(Strip(linhas[1]))
             /\ ~TerminaComValor(Strip(linhas[1]))
             /\ Strip(linhas[2]) \in termos_continuacao
             /\ Strip(linhas[3]) \in termos_continuacao )
           => linhas_consolidadas =
                 << Strip(linhas[1]) \o <<" ">> \o Strip(linhas[2]), Strip(linhas[3]) >>

C4_Witness ==
    /\ Retornou
    /\ Len(linhas) = 3
    /\ Strip(linhas[1]) # <<>>
    /\ Strip(linhas[1]) \notin termos_continuacao
    /\ Strip(linhas[2]) \in termos_continuacao
    /\ Strip(linhas[3]) \in termos_continuacao
    /\ Len(linhas_consolidadas) = 2

\* C5: the normalizer and the consolidator keep the words of their input in
\* their order: the text a stage returns holds the same sequence of words as
\* the text it received.
C5_OrderPreserved ==
    pc \in {"cons", "norm2", "done"} => Palavras(texto_limpo) = Palavras(entrada)

\* the consolidator merged two lines of a text of at least three words
C5_Witness ==
    /\ Retornou
    /\ Len(linhas_consolidadas) < Len(linhas)
    /\ Len(Palavras(texto_limpo)) >= 3
    /\ texto_limpo # entrada

\* C6: normalizar_espacos applied to its own result returns that result, for
\* the raw texts, the texts between the stages and the returned texts.
C6_NormalizarIdempotent ==
    /\ \A x \in {texto_bruto, texto_limpo} :
          normalizar_espacos(normalizar_espacos(x)) = normalizar_espacos(x)
    /\ pc \in {"cons", "done"} => normalizar_espacos(texto_limpo) = texto_limpo

\* the first normalization changed a text that held blank lines
C6_Witness ==
    /\ pc = "cons"
    /\ texto_limpo # entrada
    /\ BlocosVazios(LinhasDe(entrada)) >= 1
    /\ Len(LinhasDe(texto_limpo)) < Len(LinhasDe(entrada))

\* C7: in the returned text no line holds two consecutive spaces, no line
\* starts or ends with whitespace, no two consecutive lines are empty, and
\* every run of blank lines left by the furniture filter is kept as one
\* empty line.
C7_WhitespaceInvariants ==
    pc = "done" =>
        LET ls == LinhasDe(texto_limpo)
        IN  /\ \A k \in 1..Len(ls) :
                  /\ \A m \in 1..(Len(ls[k]) - 1) : ~(ls[k][m] = " " /\ ls[k][m + 1] = " ")
                  /\ ls[k] # <<>> =>
                        ls[k][1] \notin Whitespace /\ ls[k][Len(ls[k])] \notin Whitespace
            /\ \A k \in 1..(Len(ls) - 1) : ~(ls[k] = <<>> /\ ls[k + 1] = <<>>)
            /\ Cardinality({k \in 1..Len(ls) : ls[k] = <<>>})
                  = BlocosVazios(LinhasDe(limpar_cabecalhos_rodapes(texto_bruto)))

\* a text with a double space and two blank lines in a row went through
C7_Witness ==
    /\ pc = "done"
    /\ ~reaplicado
    /\ \E m \in 1..(Len(texto_bruto) - 1) : texto_bruto[m] = " " /\ texto_bruto[m + 1] = " "
    /\ \E k \in 1..(Len(LinhasDe(texto_bruto)) - 1) :
          Strip(LinhasDe(texto_bruto)[k]) = <<>> /\ Strip(LinhasDe(texto_bruto)[k + 1]) = <<>>
    /\ Cardinality({k \in 1..Len(LinhasDe(texto_limpo)) : LinhasDe(texto_limpo)[k] = <<>>}) = 1

\* the texts of the first n pages that yield a text, in page order
ComTexto(n) ==
    LET com == SelectSeq(SubSeq(pages, 1, n), LAMBDA q : ~q.none /\ q.texto # <<>>)
    IN  [k \in 1..Len(com) |-> com[k].texto]

\* C8: the raw text is the texts of the pages that yield text, in page order,
\* joined by one line break, a page without text adding nothing; with no
\* such page the request returns the empty string, and a request raises only
\* when a step of it failed.
C8_PageAggregator ==
    /\ pc = "pages" => texto_completo = ComTexto(p - 1)
    /\ pc \in {"limpar", "norm1", "cons", "cons_loop", "norm2", "done"} =>
          /\ texto_bruto = Join(ComTexto(Len(pages)))
          /\ erro = "none"
    /\ (pc = "done" /\ ComTexto(Len(pages)) = <<>>) => texto_limpo = <<>>
    /\ pc = "raised" => erro \in {"create", "write", "open", "extract"}

\* a document whose first page yields the empty text and whose second page
\* yields a text was joined
C8_Witness ==
    /\ pc = "limpar"
    /\ Len(pages) = 2
    /\ ~pages[1].none /\ pages[1].texto = <<>>
    /\ pages[2].texto # <<>>
    /\ texto_bruto = pages[2].texto

\* a document none of whose pages yields text returned the empty string
C8_EmptyDocument ==
    /\ pc = "done"
    /\ Len(pages) >= 1
    /\ ComTexto(Len(pages)) = <<>>
    /\ texto_limpo = <<>>

\* C9: when extrair_texto_cnis has returned or raised, the temporary file is
\* gone.
C9_TempFileReleased ==
    pc \in {"done", "raised"} => ~tmp_file

\* C10 as stated: an iteration that does not merge appends the line it read
\* character for character.
C10_EmitsUnchanged ==
    [][(pc = "cons_loop" /\ i <= Len(linhas) /\ i' = i + 1) =>
          linhas_consolidadas' = Append(linhas_consolidadas, linhas[i])]_vars

\* C10 amended: an iteration that does not merge appends the line it read
\* with its leading and trailing whitespace removed (a blank line is appended
\* as the empty line); a line without such whitespace is appended unchanged.
C10_EmitsStripped ==
    [][(pc = "cons_loop" /\ i <= Len(linhas) /\ i' = i + 1) =>
          /\ linhas_consolidadas' = Append(linhas_consolidadas, Strip(linhas[i]))
          /\ (linhas[i] = <<>> \/ (linhas[i][1] \notin Whitespace
                                   /\ linhas[i][Len(linhas[i])] \notin Whitespace))
                => linhas_consolidadas' = Append(linhas_consolidadas, linhas[i])]_vars

\* a line with leading and trailing whitespace and a whitespace-only line were
\* appended without being merged
C10_Witness ==
    /\ pc = "cons_loop"
    /\ i = 3
    /\ Len(linhas_consolidadas) = 2
    /\ linhas[1] # Strip(linhas[1]) /\ Strip(linhas[1]) # <<>>
    /\ linhas_consolidadas[1] = Strip(linhas[1])
    /\ linhas[2] # <<>> /\ Strip(linhas[2]) = <<>>
    /\ linhas_consolidadas[2] = <<>>

====
